---------------------------- MODULE Spec2Model ----------------------------
(***************************************************************************)
(* The language-server connection lifecycle of the Godot VS Code plugin:  *)
(* ClientConnectionManager (src/src/lsp/ClientConnectionManager.ts), the   *)
(* language client whose status events it handles, and the tagged          *)
(* sub-process registry it spawns the headless server with.                *)
(*                                                                         *)
(* Every callback of the extension host runs to completion on one thread:  *)
(* a command, a timer tick, a client status event, a prompt answer and the *)
(* resumption of an async function after an await are each one action.     *)
(* GDScriptLanguageClient, utils/subspawn and utils (get_free_port, ...)   *)
(* are not among the source files; they are modelled from the              *)
(* specification (sections 4.1, 4.3, 4.4).                                 *)
(***************************************************************************)
EXTENDS Integers, Sequences, FiniteSets, Bags, TLC

VARIABLES
    status,       \* ClientConnectionManager.status
    attempts,     \* ClientConnectionManager.reconnection_attempts
    retry,        \* ClientConnectionManager.retry
    port,         \* client.port, -1 = use the configured lsp.serverPort
    connectedToLSP, \* the context key published with set_context
    headless,     \* configuration lsp.headless
    auto_retry,   \* configuration lsp.autoReconnect.enabled
    max_attempts, \* configuration lsp.autoReconnect.attempts
    cstatus,      \* the status of the language client
    inflight,     \* connect attempts whose terminal event is still to come
    lsp,          \* live processes registered under the tag "LSP"
    tasks,        \* suspended start_language_server calls (a bag)
    prompts,      \* open "Couldn't connect" prompts (Retry / Ignore)
    startup,      \* the distinct status values shown during start-up
    last,         \* the callback that ran last
    probe         \* an executable validation under test (SpecValidator)

vars == <<status, attempts, retry, port, connectedToLSP, headless, auto_retry,
          max_attempts, cstatus, inflight, lsp, tasks, prompts,
          startup, last, probe>>

----------------------------------------------------------------------------
(* Bounds of the model *)

\* lsp.autoReconnect.attempts ranges over 0..MaxAttemptsCfg
MaxAttemptsCfg == 1
\* ports handed out by get_free_port are 1..MaxPort
MaxPort == 1
\* start_language_server calls suspended at an await at the same time
MaxTasks == 2
\* connect attempts in flight at the same time
MaxInflight == 2
\* processes alive under one tag
MaxProcs == 2
\* "Couldn't connect" prompts the user leaves open at the same time
MaxPrompts == 1
\* minor versions an executable may report are 0..MaxMinor
MaxMinor == 12

NoPort == -1

Ports == 1..MaxPort

ManagerStatus == {"INITIALIZING", "INITIALIZING_LSP", "PENDING", "PENDING_LSP",
                  "DISCONNECTED", "CONNECTED", "RETRYING"}

ClientStatus == {"PENDING", "CONNECTED", "DISCONNECTED"}

----------------------------------------------------------------------------
(* The program state as one record, so that a handler is a function of it *)

Cur ==
    [status |-> status, attempts |-> attempts, retry |-> retry, port |-> port,
     connectedToLSP |-> connectedToLSP, headless |-> headless,
     auto_retry |-> auto_retry, max_attempts |-> max_attempts,
     cstatus |-> cstatus, inflight |-> inflight,
     lsp |-> lsp, tasks |-> tasks, prompts |-> prompts]

InBounds(s) ==
    /\ s.inflight <= MaxInflight
    /\ s.lsp <= MaxProcs
    /\ BagCardinality(s.tasks) <= MaxTasks

(* The status values shown during start-up: each change of the status is  *)
(* recorded until the first connect attempt has ended one way or the       *)
(* other; the record is dropped by the callback after that.                *)
Observe(h, st) ==
    IF h = <<>> \/ h[Len(h)] \in {"CONNECTED", "DISCONNECTED"} THEN <<>>
    ELSE IF h[Len(h)] = st THEN h
    ELSE Append(h, st)

Ran(op, kind, result) == [op |-> op, kind |-> kind, result |-> result]

\* the step of callback op that takes the program from Cur to s
Step(s, op, kind, result) ==
    /\ InBounds(s)
    /\ status' = s.status
    /\ attempts' = s.attempts
    /\ retry' = s.retry
    /\ port' = s.port
    /\ connectedToLSP' = s.connectedToLSP
    /\ headless' = s.headless
    /\ auto_retry' = s.auto_retry
    /\ max_attempts' = s.max_attempts
    /\ cstatus' = s.cstatus
    /\ inflight' = s.inflight
    /\ lsp' = s.lsp
    /\ tasks' = s.tasks
    /\ prompts' = s.prompts
    /\ startup' = Observe(startup, s.status)
    /\ last' = Ran(op, kind, result)
    /\ UNCHANGED probe

----------------------------------------------------------------------------
(* ClientConnectionManager.on_client_status_changed *)

on_client_status_changed(s, ev) ==
    CASE ev = "PENDING" ->
           [s EXCEPT !.status = "PENDING"]
      [] ev = "CONNECTED" ->
           [s EXCEPT !.retry = FALSE,
                     !.connectedToLSP = TRUE,
                     !.status = "CONNECTED"]
      [] ev = "DISCONNECTED" ->
           [s EXCEPT !.connectedToLSP = FALSE,
                     !.status = IF s.retry
                                THEN IF s.port # NoPort
                                     THEN "INITIALIZING_LSP"
                                     ELSE "RETRYING"
                                ELSE "DISCONNECTED",
                     !.retry = TRUE]

(* The language client (specification 4.4): connect moves the client to    *)
(* Pending at once, telling its watcher, and a terminal event follows.     *)
connect_to_server(s) ==
    on_client_status_changed(
        [s EXCEPT !.cstatus = "PENDING", !.inflight = @ + 1],
        "PENDING")

(* The sub-process registry (specification 4.3) *)
killSubProcesses(s) == [s EXCEPT !.lsp = 0]

\* a registry that adds the new process without ending the one it holds
subProcess_KeepsOld(s) == [s EXCEPT !.lsp = @ + 1]

subProcess(s) == [killSubProcesses(s) EXCEPT !.lsp = 1]

\* a stop that also writes the status
stop_language_server_Disconnects(s) ==
    [killSubProcesses(s) EXCEPT !.status = "DISCONNECTED"]

\* a stop that also gives the port back
stop_language_server_ReleasesPort(s) ==
    [killSubProcesses(s) EXCEPT !.port = NoPort]

stop_language_server(s) == killSubProcesses(s)

\* a start that takes its port before the executable is checked
start_language_server_AllocatesFirst(s, kind) ==
    [stop_language_server(s) EXCEPT
        !.port = 1,
        !.tasks = @ (+) SetToBag({[kind |-> kind, pc |-> "get_project_dir"]})]

\* start_language_server up to its first await (get_project_dir)
start_language_server(s, kind) ==
    [stop_language_server(s) EXCEPT
        !.tasks = @ (+) SetToBag({[kind |-> kind, pc |-> "get_project_dir"]})]

\* a connect sequence that resets the port after the await, not before
connect_continuation_ResetsPort(s) ==
    connect_to_server([s EXCEPT !.attempts = 0, !.port = NoPort])

\* connect_to_language_server after its await
connect_continuation(s) ==
    connect_to_server([s EXCEPT !.attempts = 0])

connect_to_language_server(s) ==
    LET s1 == [s EXCEPT !.port = NoPort]
    IN  IF s1.headless
        THEN start_language_server(s1, "connect")
        ELSE connect_continuation(s1)

\* a retry that does not look at lsp.autoReconnect.enabled
retry_connect_client_AlwaysEnabled(s) ==
    IF s.attempts <= s.max_attempts - 1
    THEN [connect_to_server([s EXCEPT !.attempts = @ + 1]) EXCEPT !.retry = TRUE]
    ELSE [s EXCEPT !.retry = FALSE,
                   !.status = "DISCONNECTED",
                   !.prompts = @ + 1]

\* a retry that compares the counter with the limit itself
retry_connect_client_OffByOne(s) ==
    IF s.auto_retry /\ s.attempts <= s.max_attempts
    THEN [connect_to_server([s EXCEPT !.attempts = @ + 1]) EXCEPT !.retry = TRUE]
    ELSE [s EXCEPT !.retry = FALSE,
                   !.status = "DISCONNECTED",
                   !.prompts = @ + 1]

retry_connect_client(s) ==
    IF s.auto_retry /\ s.attempts <= s.max_attempts - 1
    THEN [connect_to_server([s EXCEPT !.attempts = @ + 1]) EXCEPT !.retry = TRUE]
    ELSE [s EXCEPT !.retry = FALSE,
                   !.status = "DISCONNECTED",
                   !.prompts = @ + 1]

\* a tick that retries whether or not retry is armed
retry_callback_Unguarded(s) == retry_connect_client(s)

retry_callback(s) ==
    IF s.retry THEN retry_connect_client(s) ELSE s

\* a click that retries in whatever status
on_status_item_click_AnyStatus(s) == retry_connect_client(s)

on_status_item_click(s) ==
    IF s.status = "DISCONNECTED" THEN retry_connect_client(s) ELSE s

\* the handler registered for the command startLanguageServer
startLanguageServer(s) ==
    connect_to_server([start_language_server(s, "command") EXCEPT !.attempts = 0])

----------------------------------------------------------------------------
(* The state after the constructor *)

Constructed(h, a, m) ==
    connect_to_language_server(
        [status |-> "INITIALIZING", attempts |-> 0, retry |-> FALSE,
         port |-> NoPort, connectedToLSP |-> FALSE, headless |-> h,
         auto_retry |-> a, max_attempts |-> m, cstatus |-> "DISCONNECTED",
         inflight |-> 0, lsp |-> 0, tasks |-> EmptyBag,
         prompts |-> 0])

NoProbe == [state |-> "none"]

InitProgram ==
    \E h \in BOOLEAN, a \in BOOLEAN, m \in 0..MaxAttemptsCfg :
        LET s == Constructed(h, a, m)
        IN  /\ status = s.status
            /\ attempts = s.attempts
            /\ retry = s.retry
            /\ port = s.port
            /\ connectedToLSP = s.connectedToLSP
            /\ headless = s.headless
            /\ auto_retry = s.auto_retry
            /\ max_attempts = s.max_attempts
            /\ cstatus = s.cstatus
            /\ inflight = s.inflight
            /\ lsp = s.lsp
            /\ tasks = s.tasks
            /\ prompts = s.prompts
            /\ startup = Observe(<<"INITIALIZING">>, s.status)
            /\ last = [op |-> "constructor", kind |-> "connect",
                       result |-> ""]

Init == InitProgram /\ probe = NoProbe


----------------------------------------------------------------------------
(* The executable check of start_language_server *)

\* what `<godotPath> --version` may print, or that running it throws
VersionOutputs ==
    {[kind |-> "throws", major |-> 0, minor |-> 0],
     [kind |-> "nomatch", major |-> 0, minor |-> 0]}
    \cup [kind : {"version"}, major : {3, 4}, minor : 0..MaxMinor]

\* the first character of the project's version
ProjectVersions == {3, 4}

\* the decimal digits of n: the text the pattern's ([0-9]+) captures
RECURSIVE Digits(_)
Digits(n) ==
    IF n < 10 THEN <<n>> ELSE Append(Digits(n \div 10), n % 10)

\* a < b on strings: by code unit, a proper prefix being the smaller
RECURSIVE StringLess(_, _)
StringLess(a, b) ==
    IF b = <<>> THEN FALSE
    ELSE IF a = <<>> THEN TRUE
    ELSE IF Head(a) # Head(b) THEN Head(a) < Head(b)
    ELSE StringLess(Tail(a), Tail(b))

validate_executable(out, projectVersion) ==
    LET minimumVersion == IF projectVersion = 4 THEN <<2>> ELSE <<6>>
    IN  IF out.kind = "throws" THEN "InvalidExecutable"
        ELSE IF out.kind = "nomatch" THEN "InvalidExecutable"
        ELSE IF out.major # projectVersion THEN "WrongVersion"
        ELSE IF StringLess(Digits(out.minor), minimumVersion) THEN "TooOld"
        ELSE "ok"

\* the results the check has on some project and some executable
ValidationResults ==
    {validate_executable(out, pv) : out \in VersionOutputs, pv \in ProjectVersions}

----------------------------------------------------------------------------
(* start_language_server after each of its awaits *)

TasksAt(pc) == {t \in BagToSet(tasks) : t.pc = pc}

Remove(s, t) == [s EXCEPT !.tasks = @ (-) SetToBag({t})]

Advance(s, t, pc) ==
    [s EXCEPT !.tasks = (@ (-) SetToBag({t})) (+) SetToBag({[t EXCEPT !.pc = pc]})]

(* start_language_server returns; the connect_to_language_server awaiting  *)
(* it goes on in the same turn of the event loop (a promise job), before   *)
(* any timer, command or client event.                                     *)
Return(s, t) ==
    IF t.kind = "connect"
    THEN connect_continuation(Remove(s, t))
    ELSE Remove(s, t)

\* get_project_dir resolved
ResumeProjectDir ==
    \E t \in TasksAt("get_project_dir"), projectDir \in BOOLEAN :
        IF projectDir
        THEN Step(Advance(Cur, t, "get_project_version"),
                  "start_language_server", t.kind, "project_dir")
        ELSE Step(Return(Cur, t),
                  "start_language_server", t.kind, "not_a_project")

\* get_project_version resolved: the executable is checked
ResumeProjectVersion ==
    \E t \in TasksAt("get_project_version"), r \in ValidationResults :
            IF r = "ok"
            THEN Step(Advance(Cur, t, "get_free_port"),
                      "start_language_server", t.kind, r)
            ELSE Step(Return(Cur, t), "start_language_server", t.kind, r)

\* get_free_port resolved: the headless server is spawned
ResumeFreePort ==
    \E t \in TasksAt("get_free_port"), p \in Ports :
        Step(Return(subProcess([Cur EXCEPT !.port = p]), t),
             "start_language_server", t.kind,
             IF lsp > 0 THEN "respawned" ELSE "spawned")

\* get_free_port rejected: start_language_server and its awaiter reject
RejectFreePort ==
    \E t \in TasksAt("get_free_port") :
        Step(Remove(Cur, t), "start_language_server", t.kind, "NoPortAvailable")

----------------------------------------------------------------------------
(* Callbacks *)

\* setInterval(() => this.retry_callback(), cooldown)
RetryTimerFires ==
    Step(retry_callback(Cur), "retry_callback", "",
         IF ~retry THEN "idle"
         ELSE IF retry_callback(Cur).inflight > inflight THEN "connect"
         ELSE "prompt")

\* a tick in a session whose user answers the prompts
RetryTimerTick ==
    /\ RetryTimerFires
    /\ prompts' <= MaxPrompts

StartLanguageServerCommand ==
    Step(startLanguageServer(Cur), "startLanguageServer", "command", "")

StopLanguageServerCommand ==
    Step(stop_language_server(Cur), "stopLanguageServer", "",
         IF lsp > 0 THEN "killed"
         ELSE IF last.op = "stopLanguageServer" THEN "again"
         ELSE "idle")

CheckStatusCommand ==
    /\ Step(on_status_item_click(Cur), "checkStatus", "",
            IF status = "DISCONNECTED" THEN "retry" ELSE "none")
    /\ prompts' <= MaxPrompts

\* "Retry" chosen in the "Couldn't connect" prompt
PromptRetry ==
    /\ prompts > 0
    /\ Step(connect_to_language_server([Cur EXCEPT !.prompts = @ - 1]),
            "prompt_retry", "connect", "")

\* "Ignore" chosen, or the prompt dismissed
PromptIgnore ==
    /\ prompts > 0
    /\ Step([Cur EXCEPT !.prompts = @ - 1], "prompt_ignore", "", "")

\* a connect attempt succeeds
ClientConnected ==
    /\ inflight > 0
    /\ Step(on_client_status_changed(
                [Cur EXCEPT !.inflight = @ - 1, !.cstatus = "CONNECTED"],
                "CONNECTED"),
            "on_client_status_changed", "", "CONNECTED")

\* a connect attempt fails
ClientDisconnected ==
    /\ inflight > 0
    /\ Step(on_client_status_changed(
                [Cur EXCEPT !.inflight = @ - 1, !.cstatus = "DISCONNECTED"],
                "DISCONNECTED"),
            "on_client_status_changed",
            IF status = "CONNECTED" THEN "lost" ELSE "", "DISCONNECTED")

\* an established connection drops
ConnectionLost ==
    /\ cstatus = "CONNECTED"
    /\ Step(on_client_status_changed(
                [Cur EXCEPT !.cstatus = "DISCONNECTED"], "DISCONNECTED"),
            "on_client_status_changed",
            IF status = "CONNECTED" THEN "lost" ELSE "", "DISCONNECTED")

\* the headless server exits or crashes: lspProcess.on('close') only logs
ProcessClose ==
    /\ lsp > 0
    /\ Step([Cur EXCEPT !.lsp = @ - 1], "lsp_process_close", "", "")

Next ==
    \/ RetryTimerTick
    \/ StartLanguageServerCommand
    \/ StopLanguageServerCommand
    \/ CheckStatusCommand
    \/ PromptRetry
    \/ PromptIgnore
    \/ ResumeProjectDir
    \/ ResumeProjectVersion
    \/ ResumeFreePort
    \/ RejectFreePort
    \/ ClientConnected
    \/ ClientDisconnected
    \/ ConnectionLost
    \/ ProcessClose

Spec == Init /\ [][Next]_vars

----------------------------------------------------------------------------
(* Sessions nobody attends: no command is run and no prompt is answered.   *)
(* The timer set up with setInterval fires again and again.                *)

NextUnattended ==
    \/ RetryTimerFires
    \/ ResumeProjectDir
    \/ ResumeProjectVersion
    \/ ResumeFreePort
    \/ RejectFreePort
    \/ ClientConnected
    \/ ClientDisconnected
    \/ ConnectionLost
    \/ ProcessClose

SpecUnattended ==
    Init /\ [][NextUnattended]_vars /\ WF_vars(RetryTimerFires)

(* An unattended session whose server never answers: every connect attempt *)
(* ends with a Disconnected event.                                         *)
NextRefused ==
    \/ RetryTimerFires
    \/ ResumeProjectDir
    \/ ResumeProjectVersion
    \/ ResumeFreePort
    \/ RejectFreePort
    \/ ClientDisconnected
    \/ ProcessClose

SpecRefused == Init /\ [][NextRefused]_vars

(* The same session with the timer firing forever, every pending client    *)
(* event delivered and every await of start_language_server settled.       *)
SpecRefusedFair ==
    /\ SpecRefused
    /\ WF_vars(RetryTimerFires)
    /\ WF_vars(ClientDisconnected)
    /\ WF_vars(ResumeProjectDir)
    /\ WF_vars(ResumeProjectVersion)
    /\ WF_vars(ResumeFreePort \/ RejectFreePort)

----------------------------------------------------------------------------
(* The executable check on its own: every output against every project *)

ValidationCases ==
    [state : {"asked"}, out : VersionOutputs, project : ProjectVersions,
     result : {""}]

InitValidator == InitProgram /\ probe \in ValidationCases

RunValidation ==
    /\ probe.state = "asked"
    /\ probe' = [probe EXCEPT
                    !.state = "done",
                    !.result = validate_executable(probe.out, probe.project)]
    /\ UNCHANGED <<status, attempts, retry, port, connectedToLSP, headless,
                   auto_retry, max_attempts, cstatus, inflight, lsp, tasks,
                   prompts, startup, last>>

SpecValidator == InitValidator /\ [][RunValidation]_vars

----------------------------------------------------------------------------
(* Properties *)

HandledConnected ==
    last.op = "on_client_status_changed" /\ last.result = "CONNECTED"

\* a step in which a Disconnected event of the client is handled
HandlesDisconnected ==
    last'.op = "on_client_status_changed" /\ last'.result = "DISCONNECTED"

\* the results with which start_language_server stops at the executable check
InvalidResults == {"InvalidExecutable", "WrongVersion", "TooOld"}

\* C1: whenever a Connected event of the client has just been handled, the
\* attempt counter is 0 and the retry flag is armed.
C1_ConnectedResetsAndArms ==
    HandledConnected => (attempts = 0 /\ retry)

\* C2: a Disconnected event handled while the status is Connected takes the
\* status to InitializingServer when the port is not the sentinel and to
\* Retrying when it is, never to Disconnected.
C2_LostConnectionRetries ==
    [][(status = "CONNECTED" /\ HandlesDisconnected)
        => status' = IF port # NoPort THEN "INITIALIZING_LSP" ELSE "RETRYING"]_vars

\* C3: in headless mode with a spawned server's port, a retry tick that has
\* attempts left runs the connect sequence again, starting the headless
\* server anew, instead of calling connect on its own.
C3_TickRespawnsServer ==
    [][(/\ last'.op = "retry_callback"
        /\ retry /\ auto_retry /\ attempts < max_attempts
        /\ headless /\ port # NoPort)
        => /\ BagCardinality(tasks') = BagCardinality(tasks) + 1
           /\ inflight' = inflight]_vars

\* C4: when the executable check of a connect sequence fails, that step
\* calls no connect, leaves the status at Disconnected and leaves the retry
\* flag as it was.
C4_FailedCheckAborts ==
    [][(/\ last'.op = "start_language_server"
        /\ last'.kind = "connect"
        /\ last'.result \in InvalidResults)
        => /\ inflight' = inflight
           /\ status' = "DISCONNECTED"
           /\ retry' = retry]_vars

\* C5: a headless start-up that spawned the server on a port and whose
\* first attempt connected showed the status values Initializing,
\* InitializingServer, PendingConnection, Connected, in this order.
C5_StartupSequence ==
    (/\ headless
     /\ HandledConnected
     /\ port # NoPort
     /\ startup # <<>>
     /\ startup[Len(startup)] = "CONNECTED")
    => startup = <<"INITIALIZING", "INITIALIZING_LSP", "PENDING", "CONNECTED">>

C7_StopFrame ==
    [][last'.op = "stopLanguageServer"
        => /\ lsp' = 0
           /\ UNCHANGED <<status, attempts, retry, port>>]_vars

\* a live server was stopped while the manager was connected through its port
C7_StoppedWhileConnected ==
    /\ last.op = "stopLanguageServer"
    /\ last.result = "killed"
    /\ status = "CONNECTED"
    /\ port # NoPort

\* C8: a stopLanguageServer right after a stopLanguageServer, or with no
\* "LSP" process alive, changes nothing of the program state.
C8_StopIdempotent ==
    [][(/\ last'.op = "stopLanguageServer"
        /\ (last.op = "stopLanguageServer" \/ lsp = 0))
        => Cur' = Cur]_vars

\* the second of two stops in a row, after a server had been spawned
C8_StoppedTwice ==
    /\ last.op = "stopLanguageServer"
    /\ last.result = "again"
    /\ port # NoPort
    /\ lsp = 0

\* C9: the startLanguageServer command, the Retry answer of the prompt and
\* checkStatus while Disconnected each set the attempt counter to 0 and
\* call connect.
C9_ManualReconnectResets ==
    [][(\/ last'.op = "startLanguageServer"
        \/ (last'.op = "prompt_retry" /\ ~headless)
        \/ (last'.op = "checkStatus" /\ status = "DISCONNECTED"))
        => /\ attempts' = 0
           /\ inflight' = inflight + 1]_vars

\* the result the validator is specified to give, comparing numbers
VersionValidator(out, requiredMajor, minimumMinor) ==
    IF out.kind # "version" THEN "InvalidExecutable"
    ELSE IF out.major # requiredMajor THEN "WrongVersion"
    ELSE IF out.minor < minimumMinor THEN "TooOld"
    ELSE "ok"

MinimumMinor(project) == IF project = 4 THEN 2 ELSE 6

\* C10: the executable check gives InvalidExecutable when the output does
\* not match, else WrongVersion when the major differs from the project's,
\* else TooOld exactly when the minor is numerically below the minimum,
\* else ok.
C10_ValidationByNumber ==
    probe.state = "done"
    => probe.result =
         VersionValidator(probe.out, probe.project, MinimumMinor(probe.project))

----------------------------------------------------------------------------
(* The retry policy *)

\* a step of the retry path (a timer tick, checkStatus) that calls connect
RetryPathConnects ==
    /\ last'.op \in {"retry_callback", "checkStatus"}
    /\ inflight' > inflight

\* C11: the attempt counter stays within 0..max_attempts; it changes only
\* by a reset to 0 or by one per connect of the retry path, and every
\* connect of the retry path counts, so that at most max_attempts of them
\* lie between two resets.
C11_AttemptsBounded ==
    /\ [](0 <= attempts /\ attempts <= max_attempts)
    /\ [][/\ RetryPathConnects
             => (attempts' = attempts + 1 /\ inflight' = inflight + 1)
          /\ attempts' # attempts
             => (attempts' = 0 \/ RetryPathConnects)]_vars

\* a tick used the last attempt the configuration allows
C11_LastAttemptUsed ==
    /\ last.op = "retry_callback"
    /\ last.result = "connect"
    /\ max_attempts >= 1
    /\ attempts = max_attempts

\* C12: a tick with retry armed, automatic reconnect enabled and attempts
\* left adds exactly 1 to the counter and calls connect exactly once; a tick
\* with retry not armed changes neither the counter nor the status and
\* calls no connect.
C12_TickCountsOne ==
    [][last'.op = "retry_callback"
        => /\ (retry /\ auto_retry /\ attempts < max_attempts)
                => (attempts' = attempts + 1 /\ inflight' = inflight + 1)
           /\ ~retry
                => (/\ attempts' = attempts
                    /\ status' = status
                    /\ inflight' = inflight)]_vars

\* a tick retried while the manager was waiting in Retrying
C12_TickRetried ==
    /\ last.op = "retry_callback"
    /\ last.result = "connect"
    /\ status = "PENDING"
    /\ inflight = 1
    /\ attempts = 1

\* C13: in a session without user action and without connection the
\* "Couldn't connect" prompt is shown at most once, however ticks and
\* Disconnected events interleave.
C13_PromptedOnce == prompts <= 1

\* the three commands
Commands == {"startLanguageServer", "stopLanguageServer", "checkStatus"}

\* C14 as stated: a command's step never changes the value of the status,
\* and checkStatus in a status other than Disconnected changes nothing.
C14_CommandsKeepStatus ==
    [][last'.op \in Commands
        => /\ status' = status
           /\ (last'.op = "checkStatus" /\ status # "DISCONNECTED")
                => Cur' = Cur]_vars

\* C14 as amended: the status changes only in a step that handles a terminal
\* event of the client, in a timer tick, or to PendingConnection in a step
\* that calls connect (the client's Pending event); stopLanguageServer never
\* changes it, and checkStatus in a status other than Disconnected changes
\* nothing.
C14_StatusByEventsOnly ==
    [][/\ status' # status
          => \/ last'.op \in {"on_client_status_changed", "retry_callback"}
             \/ (status' = "PENDING" /\ inflight' > inflight)
       /\ last'.op = "stopLanguageServer" => status' = status
       /\ (last'.op = "checkStatus" /\ status # "DISCONNECTED")
            => Cur' = Cur]_vars

\* checkStatus while Disconnected retried and the status went to Pending
C14_CheckStatusRetried ==
    /\ last.op = "checkStatus"
    /\ last.result = "retry"
    /\ status = "PENDING"

\* a Disconnected event was handled while the status was Connected
ConnectionWasLost ==
    /\ last.op = "on_client_status_changed"
    /\ last.result = "DISCONNECTED"
    /\ last.kind = "lost"

\* a tick has just called connect
TickConnected == last.op = "retry_callback" /\ last.result = "connect"

\* C15: with automatic reconnect enabled and at least one attempt allowed,
\* every loss of an established connection is followed by a connect attempt
\* of a timer tick, in a session without manual action.
C15_LossIsRetried ==
    (auto_retry /\ max_attempts >= 1 /\ ConnectionWasLost) ~> TickConnected

\* C16: with automatic reconnect disabled a tick calls no connect and keeps
\* the counter; a tick that finds retry armed sets the status to
\* Disconnected, disarms retry and shows the prompt.
C16_DisabledNeverRetries ==
    [][(last'.op = "retry_callback" /\ ~auto_retry)
        => /\ inflight' = inflight
           /\ attempts' = attempts
           /\ retry => (/\ status' = "DISCONNECTED"
                        /\ ~retry'
                        /\ prompts' = prompts + 1)]_vars

\* with reconnect disabled but attempts configured, a tick gave up at once
C16_DisabledTickGaveUp ==
    /\ last.op = "retry_callback"
    /\ last.result = "prompt"
    /\ ~auto_retry
    /\ attempts < max_attempts
    /\ status = "DISCONNECTED"
    /\ ~retry
    /\ prompts = 1

\* C17: a tick calls connect only when no connect attempt is in flight, so
\* that at most one attempt is in flight after it.
C17_RetriesNeverOverlap ==
    [][(last'.op = "retry_callback" /\ inflight' > inflight)
        => inflight = 0]_vars

\* C18: in a connect sequence that starts the headless server, connect is
\* called only in the step that has spawned the server, with the port the
\* step was given.
C18_ConnectAfterSpawn ==
    [][(/\ last'.op \in {"startLanguageServer", "start_language_server"}
        /\ inflight' > inflight)
        => /\ last'.result \in {"spawned", "respawned"}
           /\ port' \in Ports
           /\ lsp' = 1]_vars

\* C19: right after a Disconnected event is handled retry is not armed, and
\* retry becomes armed only in a step that handles a Connected event.
C19_RetryOneShot ==
    /\ []((last.op = "on_client_status_changed" /\ last.result = "DISCONNECTED")
            => ~retry)
    /\ [][(retry' /\ ~retry)
            => (/\ last'.op = "on_client_status_changed"
                /\ last'.result = "CONNECTED")]_vars

\* C20: once a tick has given up (prompt shown, status Disconnected, retry
\* disarmed), retry stays disarmed and the status stays Disconnected in
\* every step of a session without user action and without connection.
C20_ExhaustionDisarms ==
    [][(prompts > 0 /\ ~retry /\ status = "DISCONNECTED")
        => (~retry' /\ status' = "DISCONNECTED")]_vars

----------------------------------------------------------------------------
(* Shutdown, the port and the failures of a start *)

\* C21: while the status is Disconnected a tick calls no connect and keeps
\* the counter; a tick changes the program state only while the status is
\* Retrying or InitializingServer.
C21_DisconnectedIsTerminal ==
    [][last'.op = "retry_callback"
        => /\ status = "DISCONNECTED"
                => (inflight' = inflight /\ attempts' = attempts)
           /\ Cur' # Cur
                => status \in {"RETRYING", "INITIALIZING_LSP"}]_vars

\* the retry loop is over
RetryLoopOver == status = "DISCONNECTED" /\ ~retry /\ inflight = 0

\* C22: when every connect attempt fails and nobody acts, the manager
\* eventually is, and then stays, Disconnected with retry disarmed and no
\* connect attempt in flight.
C22_RetryLoopTerminates == <>[]RetryLoopOver

\* C23: a tick that follows a stopLanguageServer calls no connect and spawns
\* no "LSP" process.
C23_StopCancelsTimer ==
    [][(last.op = "stopLanguageServer" /\ last'.op = "retry_callback")
        => (inflight' = inflight /\ lsp' = lsp /\ tasks' = tasks)]_vars

\* C24: when the "LSP" process has been stopped or has exited and none is
\* alive, the port is the sentinel.
C24_PortReleasedOnExit ==
    (last.op \in {"lsp_process_close", "stopLanguageServer"} /\ lsp = 0)
    => port = NoPort

\* a step of start_language_server that spawns the server
Spawns == last'.op = "start_language_server"
          /\ last'.result \in {"spawned", "respawned"}

EarlyStops == InvalidResults \cup {"not_a_project"}

\* C26: the step in which start_language_server stops early changes neither
\* the port nor the "LSP" processes and ends the call, and no tick starts
\* the server, spawns or changes the port.
C26_EarlyStopKeepsPort ==
    [][/\ (last'.op = "start_language_server" /\ last'.result \in EarlyStops)
            => /\ port' = port
               /\ lsp' = lsp
               /\ BagCardinality(tasks') = BagCardinality(tasks) - 1
       /\ last'.op = "retry_callback"
            => (tasks' = tasks /\ lsp' = lsp /\ port' = port)]_vars

\* a forced start stopped at the executable check, the port of the earlier
\* server still in place
C26_StoppedEarlyWithPort ==
    /\ last.op = "start_language_server"
    /\ last.result \in InvalidResults
    /\ port \in Ports

\* C27: after a connect sequence whose port allocation failed, retry is
\* armed and the status is not Initializing any more.
C27_NoPortFallsThrough ==
    (/\ last.op = "start_language_server"
     /\ last.kind = "connect"
     /\ last.result = "NoPortAvailable")
    => (retry /\ status # "INITIALIZING")

\* C28: the context key connectedToLSP is true exactly when the status is
\* Connected.
C28_ContextAgreesWithStatus ==
    connectedToLSP <=> status = "CONNECTED"

=============================================================================
